---- MODULE Spec2Model ----
(***************************************************************************)
(* Model of the ledger core of app/main.py: the TSV ledger file (local or  *)
(* on Nextcloud), read_tsv_text / write_tsv_text, load_df, append_row and  *)
(* delete_last_entry.                                                      *)
(*                                                                         *)
(* Text is a sequence of tokens.  A token is either the newline character  *)
(* or the newline-free content of one line, so that rstrip("\n"),          *)
(* splitlines() and "\n".join() act on the text as they do in Python.      *)
(*                                                                         *)
(* Numbers: the float zaehlerstand is given in halves of a kWh (z2 = 2 *    *)
(* zaehlerstand), prices and charges in units of 1/10000 EUR.  Python's    *)
(* round() is exact on halves (round-half-even); round(x, 2) of a product  *)
(* that is a decimal tie depends on the binary value of the float product  *)
(* and is modelled as a choice between the two neighbours.                 *)
(*                                                                         *)
(* Spec runs the requests one after the other, each handler as one action. *)
(* SpecConc runs two requests at a time (the handlers are plain def /      *)
(* async def routes without a lock): each handler is cut at its accesses   *)
(* to the file, and calls[p] holds the locals of request p.                *)
(***************************************************************************)
EXTENDS Integers, Sequences, FiniteSets, TLC

VARIABLES nc, start, store, pre, op, args, outcome, ret, calls, writer, overlapped

vars == <<nc, start, store, pre, op, args, outcome, ret, calls, writer, overlapped>>

\* ------------------------------------------------------------------ bounds
MaxRows == 2

\* requests each of the two concurrent clients sends
MaxCalls == 2

\* ------------------------------------------------------- program constants
MinVerbrauch == 10
MaxVerbrauch == 2000

\* ------------------------------------------------------------------ tokens
NoDate == <<0, 0, 0>>
NoDec == <<0, 0>>

Tok(k) ==
    [k |-> k, datum |-> NoDate, zaehlerstand |-> 0, strompreis |-> NoDec,
     verbrauch |-> 0, abrechnung |-> NoDec]

NL == Tok("nl")

\* "Datum\tZaehlerstand\tStrompreis\tVerbrauch\tAbrechnung"
HeaderLine == Tok("hdr")

\* a first line that lacks required columns
ForeignHeaderLine == Tok("foreign")

header == <<HeaderLine, NL>>

RowTok(datum, z, sp, v, ab) ==
    [k |-> "row", datum |-> datum, zaehlerstand |-> z, strompreis |-> sp,
     verbrauch |-> v, abrechnung |-> ab]

\* ------------------------------------------------------- string functions
RECURSIVE rstrip(_)
rstrip(t) ==
    IF t = <<>> THEN <<>>
    ELSE IF t[Len(t)] = NL THEN rstrip(SubSeq(t, 1, Len(t) - 1))
    ELSE t

RECURSIVE SplitAcc(_, _, _)
SplitAcc(t, cur, acc) ==
    IF t = <<>> THEN (IF cur = <<>> THEN acc ELSE Append(acc, cur))
    ELSE IF Head(t) = NL THEN SplitAcc(Tail(t), <<>>, Append(acc, cur))
    ELSE SplitAcc(Tail(t), Append(cur, Head(t)), acc)

splitlines(t) == SplitAcc(t, <<>>, <<>>)

RECURSIVE join(_)
join(lines) ==
    IF lines = <<>> THEN <<>>
    ELSE IF Len(lines) = 1 THEN lines[1]
    ELSE lines[1] \o <<NL>> \o join(Tail(lines))

\* txt.strip() = "": the text holds nothing but newlines
IsBlank(t) == \A i \in 1..Len(t) : t[i] = NL

\* ------------------------------------------------------------ the store
Absent == [exists |-> FALSE, text |-> <<>>]
File(t) == [exists |-> TRUE, text |-> t]

\* ------------------------------------------------------ numeric functions
\* int(x) of a float given in halves: truncation towards zero
IntOfHalves(z2) == IF z2 >= 0 THEN z2 \div 2 ELSE -((-z2) \div 2)

\* round(x) of a float given in halves: round-half-even
RoundHalves(n2) ==
    LET f == n2 \div 2
    IN  IF n2 % 2 = 0 THEN f
        ELSE IF f % 2 = 0 THEN f ELSE f + 1

Max(a, b) == IF a >= b THEN a ELSE b

Verbrauch_unclamped(z2, last_zaehler) == RoundHalves(z2 - 2 * last_zaehler)

\* max(0, round(zaehlerstand - last_zaehler))
Verbrauch(z2, last_zaehler) == Max(0, RoundHalves(z2 - 2 * last_zaehler))

InRange_exclusive(v) == MinVerbrauch < v /\ v < MaxVerbrauch

\* 10 <= verbrauch <= 2000
InRange(v) == MinVerbrauch <= v /\ v <= MaxVerbrauch

RangeViolation_first_too(rows, verbrauch) == ~InRange(verbrauch)

RangeViolation_never(rows, verbrauch) == FALSE

\* not df.empty and not (10 <= verbrauch <= 2000)
RangeViolation(rows, verbrauch) == rows # <<>> /\ ~InRange(verbrauch)

Round2_truncating(x) == {(x \div 100) * 100}

\* round(x, 2) for x >= 0 in units of 1/10000: the results the build can
\* produce, in units of 1/10000 (multiples of 100)
Round2(x) ==
    LET lo == (x \div 100) * 100
        r == x % 100
    IN  IF r < 50 THEN {lo}
        ELSE IF r > 50 THEN {lo + 100}
        ELSE {lo, lo + 100}

\* f"{x:.6f}" for x >= 0 in units of 1/10000: <<integer part, 6 digits>>
Fmt6(x) == <<x \div 10000, (x % 10000) * 100>>

\* ------------------------------------------------------------------ dates
DaysIn(y, m) ==
    IF m \in {4, 6, 9, 11} THEN 30
    ELSE IF m = 2 THEN (IF y % 4 = 0 /\ (y % 100 # 0 \/ y % 400 = 0) THEN 29 ELSE 28)
    ELSE 31

\* datetime.fromisoformat accepts <<y, m, d>>
IsIsoDate(iso) ==
    /\ iso[1] \in 1..9999
    /\ iso[2] \in 1..12
    /\ iso[3] \in 1..DaysIn(iso[1], iso[2])

\* d.strftime("%d.%m.%Y")
datum_str(iso) == <<iso[3], iso[2], iso[1]>>

\* ------------------------------------------------------- storage access
\* What the lazy creation of a missing file does in one call:
\*   "ok"     the header is written
\*   "silent" Nextcloud answers the PUT with an error status, which
\*            read_tsv_text / nc_download_file do not look at
\*   "raise"  the PUT (or the local open/write) raises
PutOf(f) ==
    IF f = "put_silent" THEN "silent"
    ELSE IF f = "put_raise" THEN "raise"
    ELSE "ok"

Raised(s) == [store |-> s, raised |-> TRUE, txt |-> <<>>]
Returned(s, t) == [store |-> s, raised |-> FALSE, txt |-> t]

read_tsv_text_always_init(s, isnc, getFails, put) ==
    IF getFails THEN Raised(s) ELSE Returned(File(header), header)

\* read_tsv_text(): the store afterwards, whether it raised, the text
read_tsv_text(s, isnc, getFails, put) ==
    IF isnc THEN
        IF getFails THEN Raised(s)
        ELSE IF ~s.exists THEN
            (IF put = "ok" THEN Returned(File(header), header)
             ELSE IF put = "silent" THEN Returned(s, header)
             ELSE Raised(s))
        ELSE Returned(s, s.text)
    ELSE
        IF getFails THEN Raised(s)
        ELSE IF ~s.exists THEN
            (IF put = "ok" THEN Returned(File(header), header) ELSE Raised(s))
        ELSE Returned(s, s.text)

\* nc_download_file(): as the Nextcloud branch of read_tsv_text, on bytes
nc_download_file(s, getFails, put) ==
    IF getFails THEN Raised(s)
    ELSE IF ~s.exists THEN
        (IF put = "ok" THEN Returned(File(header), header)
         ELSE IF put = "silent" THEN Returned(s, header)
         ELSE Raised(s))
    ELSE Returned(s, s.text)

\* a file opened for appending: the new last line is added to what is stored
write_tsv_text_merging(s, t, fails) ==
    IF fails THEN [store |-> s, raised |-> TRUE]
    ELSE IF Len(t) < 2 \/ ~s.exists THEN [store |-> File(t), raised |-> FALSE]
    ELSE [store |-> File(rstrip(s.text) \o <<NL, t[Len(t) - 1], NL>>), raised |-> FALSE]

\* write_tsv_text(text) / nc_upload_file(bytes) / open(local_path, "w"):
\* the whole file is replaced, or the call raises and the file is as before
write_tsv_text(s, t, fails) ==
    IF fails THEN [store |-> s, raised |-> TRUE]
    ELSE [store |-> File(t), raised |-> FALSE]

\* ---------------------------------------------------------------- load_df
NonBlank(l) == l # <<>>

\* pd.read_csv(sep="\t"): blank lines are skipped, the first line left names
\* the columns, the others are the rows
load_df(txt) ==
    LET lines == SelectSeq(splitlines(txt), NonBlank)
    IN  IF txt = <<>> \/ IsBlank(txt) THEN [kind |-> "empty", rows |-> <<>>]
        ELSE IF lines[1] # <<HeaderLine>> THEN [kind |-> "format", rows |-> <<>>]
        ELSE [kind |-> "ok", rows |-> [i \in 1..(Len(lines) - 1) |-> lines[i + 1][1]]]

\* int(df.iloc[-1]["Zaehlerstand"]) if not df.empty else 0
LastZaehler(rows) ==
    IF rows # <<>> THEN rows[Len(rows)].zaehlerstand ELSE 0

\* ------------------------------------------------------------- the record
NoRet ==
    [Datum |-> NoDate, Zaehlerstand |-> 0, Strompreis |-> 0, Verbrauch |-> 0,
     Abrechnung |-> 0]

NoArgs == [iso |-> NoDate, z2 |-> 0, p |-> 0]

\* the line append_row formats
NewLine(iso, z2, p, verbrauch, abrechnung) ==
    RowTok(datum_str(iso), IntOfHalves(z2), Fmt6(p), verbrauch, Fmt6(abrechnung))

\* the dict append_row returns
NewRecord(iso, z2, p, verbrauch, abrechnung) ==
    [Datum |-> datum_str(iso), Zaehlerstand |-> IntOfHalves(z2), Strompreis |-> p,
     Verbrauch |-> verbrauch, Abrechnung |-> abrechnung]

NewText_unstripped(old, new_line) == old \o <<NL>> \o <<new_line>> \o <<NL>>

\* old.rstrip("\n") + "\n" + new_line + "\n"
NewText(old, new_line) == rstrip(old) \o <<NL>> \o <<new_line>> \o <<NL>>

OldText_from_load(loaded, reloaded) == loaded

\* old = read_tsv_text(): append_row extends the text it reads again, not the
\* text load_df parsed
OldText(loaded, reloaded) == reloaded

NewContent_drop_first(lines) == join(Tail(lines))

NewContent_drop_two(lines) == join(SubSeq(lines, 1, Len(lines) - 2))

\* lines[:-1] joined by "\n"
NewContent(lines) == join(SubSeq(lines, 1, Len(lines) - 1))

NothingToDelete_empty_only(lines) == Len(lines) < 1

\* len(lines) <= 1
NothingToDelete(lines) == Len(lines) <= 1

\* ----------------------------------------------------------------- inputs
IsoDates == {<<2024, 2, 1>>, <<2024, 13, 1>>}

\* zaehlerstand in halves: -5, 5, 1000, 1009, 1009.5, 1010, 3000, 3001
Readings2 == {-10, 10, 2000, 2018, 2019, 2020, 6000, 6002}

\* strompreis in 1/10000 EUR: 0.3250, 0.3337
Prices == {3250, 3337}

Faults == {"none", "read1", "read2", "write", "put_silent", "put_raise"}

Starts == {"absent", "header", "empty", "foreign"}

ScenarioRow == RowTok(<<1, 1, 2024>>, 1000, Fmt6(3000), 0, Fmt6(0))

StartStore(k) ==
    IF k = "absent" THEN Absent
    ELSE IF k = "header" THEN File(header)
    ELSE IF k = "empty" THEN File(<<>>)
    ELSE File(<<ForeignHeaderLine, NL, ScenarioRow, NL>>)

\* number of lines after the first
DataRows(s) == IF s.exists /\ s.text # <<>> THEN Len(splitlines(s.text)) - 1 ELSE 0

\* ------------------------------------------------------ concurrent requests
Procs == {1, 2}

\* the locals of a request: where it stands (pc), the handler (kind), the
\* reading, the text load_df read (loaded), the line and record append_row
\* built, the text it extends (old), what was stored when append_row read
\* again (at_reload), the lines delete_last_entry read, how
\* it ended (result), and whether another request wrote between its last
\* read and its own write (missed); n counts the requests of the client
IdleCall ==
    [pc |-> "idle", kind |-> "none", a |-> NoArgs, loaded |-> <<>>,
     new_line |-> NL, rec |-> NoRet, old |-> <<>>, at_reload |-> <<>>,
     lines |-> <<>>,
     result |-> "none", missed |-> FALSE, n |-> 0]

\* the inputs of the concurrent requests: one date, one price, the integer
\* readings -5, 1000, 1005, 1010
ConcDates == {<<2024, 2, 1>>}
ConcReadings2 == {-10, 2000, 2010, 2020}
ConcPrices == {3337}

\* ------------------------------------------------------------------- state
Init ==
    /\ nc \in BOOLEAN
    /\ start \in Starts
    /\ store = StartStore(start)
    /\ pre = store
    /\ op = "none"
    /\ args = NoArgs
    /\ outcome = "none"
    /\ ret = NoRet
    /\ calls = [p \in Procs |-> IdleCall]
    /\ writer = 0
    /\ overlapped = FALSE

Done(o, a, s, out, r) ==
    /\ op' = o
    /\ args' = a
    /\ pre' = store
    /\ store' = s
    /\ outcome' = out
    /\ ret' = r
    /\ UNCHANGED <<nc, start, calls, writer, overlapped>>

\* ---------------------------------------------------------------- actions
append_row(iso, z2, p, f) ==
    LET a == [iso |-> iso, z2 |-> z2, p |-> p]
        r1 == read_tsv_text(store, nc, f = "read1", PutOf(f))
        df == load_df(r1.txt)
        last_zaehler == LastZaehler(df.rows)
        verbrauch == Verbrauch(z2, last_zaehler)
        r2 == read_tsv_text(r1.store, nc, f = "read2", PutOf(f))
    IN  /\ DataRows(store) < MaxRows
        /\ f \in {"put_silent", "put_raise"} => ~store.exists
        /\ f = "put_silent" => nc
        /\ IF r1.raised THEN Done("append", a, r1.store, "storage", NoRet)
           ELSE IF df.kind # "ok" THEN Done("append", a, r1.store, df.kind, NoRet)
           ELSE IF RangeViolation(df.rows, verbrauch)
                THEN Done("append", a, r1.store, "range", NoRet)
           ELSE IF ~IsIsoDate(iso) THEN Done("append", a, r1.store, "date", NoRet)
           ELSE IF r2.raised THEN Done("append", a, r2.store, "storage", NoRet)
           ELSE \E abrechnung \in Round2(verbrauch * p) :
                    LET new_line == NewLine(iso, z2, p, verbrauch, abrechnung)
                        w == write_tsv_text(r2.store, NewText(r2.txt, new_line), f = "write")
                    IN  IF w.raised THEN Done("append", a, w.store, "storage", NoRet)
                        ELSE Done("append", a, w.store, "ok",
                                  NewRecord(iso, z2, p, verbrauch, abrechnung))

delete_last_entry(f) ==
    LET r == IF nc THEN nc_download_file(store, f = "read1", PutOf(f))
             ELSE IF f = "read1" \/ ~store.exists THEN Raised(store)
             ELSE Returned(store, store.text)
        lines == splitlines(r.txt)
        w == write_tsv_text(r.store, NewContent(lines), f = "write")
    IN  /\ f # "read2"
        /\ f \in {"put_silent", "put_raise"} => nc /\ ~store.exists
        /\ IF r.raised THEN Done("delete", NoArgs, r.store, "storage", NoRet)
           ELSE IF NothingToDelete(lines) THEN Done("delete", NoArgs, r.store, "nothing", NoRet)
           ELSE IF w.raised THEN Done("delete", NoArgs, w.store, "storage", NoRet)
           ELSE Done("delete", NoArgs, w.store, "ok", NoRet)

Next ==
    \/ \E iso \in IsoDates, z2 \in Readings2, p \in Prices, f \in Faults :
           append_row(iso, z2, p, f)
    \/ \E f \in Faults : delete_last_entry(f)

Spec == Init /\ [][Next]_vars

\* ------------------------------------------------- actions, two at a time
InFlight(c) == c.pc \notin {"idle", "done"}

SeqVarsUnchanged == UNCHANGED <<nc, start, pre, op, args, outcome, ret>>

\* another request wrote: every request that has read and not yet written
\* has missed that write
Missed(p) ==
    [q \in Procs |->
        IF q # p /\ calls[q].pc \in {"reloaded", "read"}
        THEN [calls[q] EXCEPT !.missed = TRUE] ELSE calls[q]]

Begins(p) ==
    /\ ~InFlight(calls[p])
    /\ calls[p].n < MaxCalls
    /\ overlapped' = (overlapped \/ \E q \in Procs \ {p} : InFlight(calls[q]))

\* append_row up to new_line: load_df, the range check, the date
AppendLoad(p, iso, z2, prc) ==
    LET a == [iso |-> iso, z2 |-> z2, p |-> prc]
        r1 == read_tsv_text(store, nc, FALSE, "ok")
        df == load_df(r1.txt)
        verbrauch == Verbrauch(z2, LastZaehler(df.rows))
        c == [IdleCall EXCEPT !.kind = "append", !.a = a, !.loaded = r1.txt,
                              !.n = calls[p].n + 1]
        Fails(k) == calls' = [calls EXCEPT ![p] = [c EXCEPT !.pc = "done", !.result = k]]
    IN  /\ Begins(p)
        /\ store' = r1.store
        /\ IF df.kind # "ok" THEN Fails(df.kind)
           ELSE IF RangeViolation(df.rows, verbrauch) THEN Fails("range")
           ELSE IF ~IsIsoDate(iso) THEN Fails("date")
           ELSE \E abrechnung \in Round2(verbrauch * prc) :
                    calls' = [calls EXCEPT ![p] =
                        [c EXCEPT !.pc = "loaded",
                                  !.new_line = NewLine(iso, z2, prc, verbrauch, abrechnung),
                                  !.rec = NewRecord(iso, z2, prc, verbrauch, abrechnung)]]
        /\ UNCHANGED writer
        /\ SeqVarsUnchanged

\* old = read_tsv_text()
AppendReload(p) ==
    LET r2 == read_tsv_text(store, nc, FALSE, "ok")
    IN  /\ calls[p].pc = "loaded"
        /\ store' = r2.store
        /\ calls' = [calls EXCEPT ![p].pc = "reloaded",
                                  ![p].old = OldText(calls[p].loaded, r2.txt),
                                  ![p].at_reload = r2.txt]
        /\ UNCHANGED <<writer, overlapped>>
        /\ SeqVarsUnchanged

\* write_tsv_text(new_text); return
AppendWrite(p) ==
    LET w == write_tsv_text(store, NewText(calls[p].old, calls[p].new_line), FALSE)
    IN  /\ calls[p].pc = "reloaded"
        /\ store' = w.store
        /\ calls' = [Missed(p) EXCEPT ![p].pc = "done", ![p].result = "ok"]
        /\ writer' = p
        /\ UNCHANGED overlapped
        /\ SeqVarsUnchanged

\* delete_last_entry up to lines
DeleteRead(p) ==
    LET r == IF nc THEN nc_download_file(store, FALSE, "ok")
             ELSE IF ~store.exists THEN Raised(store)
             ELSE Returned(store, store.text)
        lines == splitlines(r.txt)
        c == [IdleCall EXCEPT !.kind = "delete", !.n = calls[p].n + 1]
    IN  /\ Begins(p)
        /\ store' = r.store
        /\ calls' = [calls EXCEPT ![p] =
               IF r.raised THEN [c EXCEPT !.pc = "done", !.result = "storage"]
               ELSE IF NothingToDelete(lines) THEN [c EXCEPT !.pc = "done", !.result = "nothing"]
               ELSE [c EXCEPT !.pc = "read", !.lines = lines]]
        /\ UNCHANGED writer
        /\ SeqVarsUnchanged

\* the write back of delete_last_entry
DeleteWrite(p) ==
    LET w == write_tsv_text(store, NewContent(calls[p].lines), FALSE)
    IN  /\ calls[p].pc = "read"
        /\ store' = w.store
        /\ calls' = [Missed(p) EXCEPT ![p].pc = "done", ![p].result = "ok"]
        /\ writer' = p
        /\ UNCHANGED overlapped
        /\ SeqVarsUnchanged

NextConc ==
    \/ \E p \in Procs, iso \in ConcDates, z2 \in ConcReadings2, prc \in ConcPrices :
           AppendLoad(p, iso, z2, prc)
    \/ \E p \in Procs : AppendReload(p)
    \/ \E p \in Procs : AppendWrite(p)
    \/ \E p \in Procs : DeleteRead(p)
    \/ \E p \in Procs : DeleteWrite(p)

InitConc == Init /\ start = "header"

SpecConc == InitConc /\ [][NextConc]_vars

\* ------------------------------------------------------------ error kinds
\* How a call that ended with `out` is reported to its caller: the class of
\* the exception append_row raises (submit catches ValueError only), or the
\* redirect delete_last_entry answers with.
\*   storage  requests.RequestException / OSError   -> "OSError"
\*   empty    RuntimeError("CSV leer ...")          -> "RuntimeError"
\*   format   RuntimeError("CSV-Spalten fehlen ...") -> "RuntimeError"
\*   range    ValueError("Der berechnete ...")      -> "ValueError"
\*   date     ValueError from datetime.fromisoformat -> "ValueError"
Reported(o, out) ==
    IF out \in {"ok", "none"} THEN "none"
    ELSE IF o = "delete" THEN
        (IF out = "nothing" THEN "redirect_nothing" ELSE "redirect_error")
    ELSE IF out \in {"empty", "format"} THEN "RuntimeError"
    ELSE IF out \in {"range", "date"} THEN "ValueError"
    ELSE "OSError"

\* ------------------------------------------------------------ properties
\* the lines of the stored ledger
Lines(s) == IF s.exists THEN splitlines(s.text) ELSE <<>>

\* the ledger the call works on: what is stored, or the header when nothing is
LedgerBefore == IF pre.exists THEN pre.text ELSE header

LinesBefore == splitlines(LedgerBefore)

\* the Meter Reading of the last record before the call, 0 without records
PreviousReading ==
    IF Len(LinesBefore) >= 2 THEN LinesBefore[Len(LinesBefore)][1].zaehlerstand ELSE 0

FirstLineIsHeader(t) == t # <<>> /\ Len(splitlines(t)) >= 1 /\ splitlines(t)[1] = <<HeaderLine>>

HasDataRowsBefore == FirstLineIsHeader(LedgerBefore) /\ Len(LinesBefore) >= 2

HeaderOnlyBefore == pre.exists /\ LinesBefore = << <<HeaderLine>> >>

LastLine(s) == Lines(s)[Len(Lines(s))]

Abs(x) == IF x >= 0 THEN x ELSE -x

\* C1: from a header-only ledger, a successful append immediately followed by
\* a successful delete-last leaves the store byte-for-byte as it was before
\* the append, trailing newline included.
C1_RoundTrip ==
    [][(start = "header" /\ op = "append" /\ outcome = "ok"
        /\ op' = "delete" /\ outcome' = "ok") => store' = pre]_vars

\* C2: with at least one data row, an append whose computed consumption is
\* below 10 or above 2000 ends with the out-of-range error (unless the load
\* itself failed on storage) and the store is what it was before the call; a
\* consumption of 10..2000 is never answered with the out-of-range error.
C2_OutOfRangeRejected ==
    (op = "append" /\ HasDataRowsBefore) =>
        LET v == Verbrauch(args.z2, PreviousReading)
        IN  /\ (v < MinVerbrauch \/ v > MaxVerbrauch) =>
                (outcome \in {"range", "storage"} /\ store = pre)
            /\ (MinVerbrauch <= v /\ v <= MaxVerbrauch) => outcome # "range"

\* the consumption 9 was rejected and nothing was written
C2_Witness ==
    /\ op = "append" /\ HasDataRowsBefore /\ outcome = "range"
    /\ Verbrauch(args.z2, PreviousReading) = MinVerbrauch - 1
    /\ store = pre

\* C3: an append to a header-only ledger is never answered with the
\* out-of-range error; given a parsable date and working storage it succeeds
\* whatever the consumption is, and the ledger then has exactly one data row.
C3_FirstRecordExempt ==
    (op = "append" /\ HeaderOnlyBefore) =>
        /\ outcome # "range"
        /\ IsIsoDate(args.iso) => outcome \in {"ok", "storage"}
        /\ outcome = "ok" => Len(Lines(store)) = 2

\* a first record with a consumption above 2000 was stored
C3_Witness ==
    /\ op = "append" /\ HeaderOnlyBefore /\ outcome = "ok"
    /\ ret.Verbrauch > MaxVerbrauch
    /\ Len(Lines(store)) = 2

\* C4: delete-last on a stored ledger of at most one line leaves the store as
\* it was and ends with nothing-to-delete (unless the read itself failed on
\* storage), on the Nextcloud and on the local backend.
C4_NothingToDelete ==
    (op = "delete" /\ pre.exists /\ Len(splitlines(pre.text)) <= 1) =>
        (store = pre /\ outcome \in {"nothing", "storage"})

\* delete-last on the header-only Nextcloud file answered nothing-to-delete
C4_Witness ==
    /\ op = "delete" /\ nc /\ pre = File(header) /\ outcome = "nothing"
    /\ store = pre

\* C5 as stated: a call that does not succeed leaves the store exactly as it
\* was, also when the file did not exist before the call.
C5_FailedCallLeavesStore ==
    (op # "none" /\ outcome # "ok") => store = pre

\* C5 amended: a call that does not succeed leaves the store as it was, except
\* that a file missing before the call may now exist with exactly the header.
C5_FailedCallLeavesStoreOrHeader ==
    (op # "none" /\ outcome # "ok") =>
        (store = pre \/ (~pre.exists /\ store = File(header)))

\* an append with an unparsable date failed after the missing file was created
C5_Witness ==
    /\ op = "append" /\ outcome = "date"
    /\ ~pre.exists /\ store = File(header)

\* C6: started from a missing or header-only file, whatever is stored is
\* non-empty and its first line is the header.
C6_HeaderInvariant ==
    (start \in {"absent", "header"} /\ store.exists) => FirstLineIsHeader(store.text)

\* delete-last removed the only record of a ledger created lazily and left
\* the header
C6_Witness ==
    /\ start = "absent" /\ op = "delete" /\ outcome = "ok"
    /\ Lines(store) = << <<HeaderLine>> >>

\* C7: after a successful append the stored lines are the lines before the
\* call, in order, followed by the new record, and the text ends with exactly
\* one newline.
C7_AppendGrowsByOne ==
    (op = "append" /\ outcome = "ok") =>
        /\ store.exists
        /\ Lines(store) = Append(LinesBefore, LastLine(store))
        /\ LastLine(store) = <<RowTok(ret.Datum, ret.Zaehlerstand,
                                       LastLine(store)[1].strompreis, ret.Verbrauch,
                                       LastLine(store)[1].abrechnung)>>
        /\ store.text[Len(store.text)] = NL
        /\ store.text[Len(store.text) - 1] # NL

\* a second record was appended to a ledger that held one
C7_Witness ==
    /\ op = "append" /\ outcome = "ok"
    /\ Len(LinesBefore) = 2 /\ Len(Lines(store)) = 3

\* C8: a successful delete-last leaves all stored lines but the last, in
\* order, whatever they hold; with at least one data row stored it succeeds
\* unless storage fails.
C8_DeleteRemovesLast ==
    /\ (op = "delete" /\ outcome = "ok") =>
           /\ pre.exists /\ Len(Lines(pre)) >= 2
           /\ Lines(store) = SubSeq(Lines(pre), 1, Len(Lines(pre)) - 1)
    /\ (op = "delete" /\ pre.exists /\ Len(Lines(pre)) >= 2) =>
           outcome \in {"ok", "storage"}

\* the last of two records was deleted
C8_Witness ==
    /\ op = "delete" /\ outcome = "ok"
    /\ Len(Lines(pre)) = 3 /\ Len(Lines(store)) = 2
    /\ Lines(store)[1] = <<HeaderLine>>

\* C9: after a successful append with an integer meter reading, the
\* Consumption returned and stored is the reading minus the previous reading
\* when that is not negative, and 0 otherwise.
C9_Consumption ==
    (op = "append" /\ outcome = "ok" /\ args.z2 % 2 = 0) =>
        LET z == args.z2 \div 2
            c == IF z >= PreviousReading THEN z - PreviousReading ELSE 0
        IN  /\ ret.Verbrauch = c
            /\ LastLine(store)[1].verbrauch = c

\* a record was appended after another one, with a positive consumption
C9_Witness ==
    /\ op = "append" /\ outcome = "ok" /\ args.z2 % 2 = 0
    /\ Len(LinesBefore) >= 2 /\ PreviousReading > 0
    /\ ret.Verbrauch = args.z2 \div 2 - PreviousReading

\* C10: after a successful append the Charge returned is a whole number of
\* cents, at most half a cent from consumption times unit price, and the
\* stored Charge is the same amount.
C10_Charge ==
    (op = "append" /\ outcome = "ok") =>
        LET x == ret.Verbrauch * args.p
            ab == LastLine(store)[1].abrechnung
        IN  /\ ret.Verbrauch >= 0
            /\ ret.Strompreis = args.p
            /\ ret.Abrechnung % 100 = 0
            /\ 2 * Abs(ret.Abrechnung - x) <= 100
            /\ ab[2] % 100 = 0
            /\ ab[1] * 10000 + ab[2] \div 100 = ret.Abrechnung

\* a product that is no whole number of cents was rounded up
C10_Witness ==
    /\ op = "append" /\ outcome = "ok"
    /\ (ret.Verbrauch * args.p) % 100 > 50
    /\ ret.Abrechnung > ret.Verbrauch * args.p

\* C12: the failures of an append are reported as pairwise different kinds:
\* no two of storage, empty, format, range and date share the kind they are
\* reported as (in particular an unparsable date is not reported as the
\* out-of-range kind), and nothing-to-delete differs from all of them.
C12_DistinctKinds ==
    (op = "append" /\ outcome \notin {"ok", "none"}) =>
        /\ \A k \in {"storage", "empty", "format", "range", "date"} \ {outcome} :
               Reported("append", k) # Reported(op, outcome)
        /\ Reported("delete", "nothing") # Reported(op, outcome)

\* C14: whenever a read of a missing file returned the header (the call went
\* on to answer nothing-to-delete or to fail on the date), the store holds
\* exactly the header line.
C14_LazyInitPersists ==
    (op # "none" /\ ~pre.exists /\ outcome \in {"nothing", "date"}) =>
        store = File(header)

\* ------------------------------------------- properties of SpecConc
AppendedOk(p) ==
    calls[p].kind = "append" /\ calls[p].pc = "done" /\ calls[p].result = "ok"

\* C11: no lock: when another request wrote between an append's second read
\* and its write, the append still replaces the file by the text it read plus
\* its own record, so what the other request wrote is gone (last write wins).
C11_LastWriteWins ==
    \A p \in Procs :
        (writer = p /\ AppendedOk(p) /\ calls[p].missed) =>
            Lines(store) = Append(splitlines(calls[p].old), <<calls[p].new_line>>)

\* two appends of different records both returned success and the file holds
\* the record of one of them only
C11_Witness ==
    \E p \in Procs, q \in Procs :
        /\ p # q /\ writer = p /\ AppendedOk(p) /\ AppendedOk(q)
        /\ calls[p].missed /\ calls[q].old = calls[p].old
        /\ calls[q].new_line # calls[p].new_line
        /\ Len(Lines(store)) = Len(splitlines(calls[p].old)) + 1
        /\ \A i \in 1..Len(Lines(store)) : Lines(store)[i] # <<calls[q].new_line>>

\* C13: when the file gained lines between append_row's load and its second
\* read, the text append_row writes holds every line stored at the second
\* read, in order, followed by its own record.
C13_ReloadKeepsOthers ==
    \A p \in Procs :
        (writer = p /\ AppendedOk(p)
         /\ Len(splitlines(calls[p].at_reload)) > Len(splitlines(calls[p].loaded))) =>
            LET lo == splitlines(calls[p].at_reload)
            IN  /\ Len(Lines(store)) = Len(lo) + 1
                /\ SubSeq(Lines(store), 1, Len(lo)) = lo
                /\ Lines(store)[Len(lo) + 1] = <<calls[p].new_line>>

\* another request added a record after the load and before the second read,
\* and the file holds that record and the append's own
C13_Witness ==
    \E p \in Procs :
        LET lo == splitlines(calls[p].at_reload)
            ll == splitlines(calls[p].loaded)
        IN  /\ writer = p /\ AppendedOk(p)
            /\ Len(lo) = Len(ll) + 1 /\ SubSeq(lo, 1, Len(ll)) = ll
            /\ Lines(store) = lo \o << <<calls[p].new_line>> >>
            /\ lo[Len(lo)] # <<calls[p].new_line>>

\* each record's Consumption is max(0, its reading minus the reading before,
\* 0 before the first), and from the second record on it lies in 10..2000,
\* so the readings increase
Consistent(s) ==
    LET L == Lines(s)
    IN  \A i \in 2..Len(L) :
            LET r == L[i][1]
                prev == IF i = 2 THEN 0 ELSE L[i - 1][1].zaehlerstand
            IN  /\ r.verbrauch = Max(0, r.zaehlerstand - prev)
                /\ i > 2 => /\ MinVerbrauch <= r.verbrauch
                            /\ r.verbrauch <= MaxVerbrauch
                            /\ r.zaehlerstand > prev

\* C15: started from the header-only ledger, with integer readings, the
\* ledger is consistent as long as no request began while another one was
\* under way.
C15_ConsistentUnlessOverlapped ==
    ~overlapped => Consistent(store)

\* requests overlapped, all have returned, and the ledger is not consistent
C15_Witness ==
    /\ overlapped
    /\ \A p \in Procs : ~InFlight(calls[p])
    /\ Len(Lines(store)) >= 3
    /\ ~Consistent(store)

====
